---- MODULE Spec2Model ----
(***************************************************************************)
(* A model of lapy/TetMesh.py: the TetMesh class, its constructor, its     *)
(* adjacency builder, its queries (has_free_vertices, is_oriented,         *)
(* avg_edge_length, boundary_tria) and its two mutating operations         *)
(* (rm_free_vertices_, orient_).                                           *)
(*                                                                         *)
(* Arrays are sequences; vertex ids are 0-based as in the source, so row i *)
(* of an array is element i+1 of the sequence that models it.              *)
(***************************************************************************)
EXTENDS Integers, Sequences, FiniteSets, TLC

VARIABLES
    v,        \* self.v : the vertex array, a sequence of <<x, y, z>> rows
    t,        \* self.t : the tetra array, a sequence of <<a, b, c, d>> rows
    adj_sym,  \* self.adj_sym : the cached adjacency matrix
    op,       \* the method that ran last
    arg,      \* its argument (tetfunc of boundary_tria), NoValue otherwise
    ret,      \* what it returned, NoValue when it raised
    err,      \* the exception it raised, "none" otherwise
    pre       \* self.v, self.t, self.adj_sym and op as they were before it ran

vars == <<v, t, adj_sym, op, arg, ret, err, pre>>

(***************************************************************************)
(* Bounds of the model and the inputs the constructor is given.            *)
(***************************************************************************)
MaxV == 5   \* most rows of a vertex array given to the constructor
MaxT == 2   \* most rows of a tetra array given to the constructor

NoValue == "NoValue"

\* Vertex i of an input array is placed by one of two layouts: on the moment
\* curve (any four distinct vertices span a tetrahedron of non-zero volume)
\* or in the plane z = 0 (every tetrahedron has zero volume).
Layouts == {"curve", "flat"}

Point(layout, i) ==
    IF layout = "curve" THEN <<i, i * i, i * i * i>> ELSE <<i, i * i, 0>>

VertexInputs ==
    { [k \in 1..n |-> Point(layout, k - 1)] : n \in 1..MaxV, layout \in Layouts }

\* The tetra rows inputs are built from: both windings of a tetrahedron, a
\* second tetrahedron glued to it on the face {1,2,3}, rows that repeat a
\* vertex id, and a row on the highest ids.
TetPool ==
    { <<0, 1, 2, 3>>, <<0, 2, 1, 3>>, <<1, 2, 3, 4>>, <<2, 3, 4, 5>>,
      <<0, 0, 0, 0>>, <<0, 0, 1, 1>>, <<0, 0, 1, 2>>, <<0, 1, 1, 3>> }

TetraInputs == UNION { [1..m -> TetPool] : m \in 1..MaxT }

\* The per-tetra scalar arrays given to boundary_tria for m tetras.
TetFuncs(m) == { [k \in 1..m |-> base + step * k] : base \in {10}, step \in {0, 1} }

(***************************************************************************)
(* Array helpers.                                                          *)
(***************************************************************************)
MaxOf(S) == CHOOSE x \in S : \A y \in S : y <= x
MinOf(S) == CHOOSE x \in S : \A y \in S : x <= y

RECURSIVE SortedSeq(_)
\* The elements of a finite set of integers in ascending order
\* (cupy.nonzero of a mask, cupy.arange).
SortedSeq(S) ==
    IF S = {} THEN <<>> ELSE <<MinOf(S)>> \o SortedSeq(S \ {MinOf(S)})

\* max(self.v.shape): the larger of the number of rows and the number of
\* columns of the vertex array.
VNum(vv) == MaxOf({Len(vv), Len(vv[1])})

\* The ids a tetra array refers to: cupy.unique(self.t.reshape(-1)).
Ids(tt) == { tt[k][j] : k \in 1..Len(tt), j \in 1..4 }

\* cupy.max(self.t)
MaxIndex(tt) == MaxOf(Ids(tt))

\* self.v[i, :] for an integer index i: cupy wraps an index that is out of
\* bounds around the axis instead of raising.
Row(vv, i) == vv[(i % Len(vv)) + 1]

(***************************************************************************)
(* construct_adj_sym                                                       *)
(***************************************************************************)
\* The twelve (i, j) coordinate pairs one tetra row contributes, in the
\* order of the two column_stack calls.
EdgePairs(tet) ==
    LET t1 == tet[1]  t2 == tet[2]  t3 == tet[3]  t4 == tet[4]
        i == <<t1, t2, t2, t3, t3, t1, t1, t2, t3, t4, t4, t4>>
        j == <<t2, t1, t3, t2, t1, t3, t4, t4, t4, t1, t2, t3>>
    IN  [k \in 1..12 |-> <<i[k], j[k]>>]

\* sparse.csc_matrix((ones, (i, j))): the shape is inferred from the largest
\* coordinate and the entries that repeat a coordinate pair are summed.
construct_adj_sym(tt) ==
    LET dim == MaxIndex(tt) + 1
    IN  [ shape |-> <<dim, dim>>,
          data  |-> [ c \in (0..dim - 1) \X (0..dim - 1) |->
                        Cardinality({ <<k, e>> \in (1..Len(tt)) \X (1..12) :
                                        EdgePairs(tt[k])[e] = c }) ] ]

\* The value of self.adj_sym before construct_adj_sym has run.
NoAdj == [shape |-> <<0, 0>>, data |-> <<>>]

(***************************************************************************)
(* __init__                                                                *)
(***************************************************************************)
\* The object after __init__(vin, tin) ran on the object self: v and t are
\* assigned before the range check, adj_sym only after it.
__init__(self, vin, tin) ==
    IF MaxIndex(tin) >= VNum(vin)
    THEN [v |-> vin, t |-> tin, adj_sym |-> self.adj_sym, err |-> "ValueError"]
    ELSE [v |-> vin, t |-> tin, adj_sym |-> construct_adj_sym(tin), err |-> "none"]

Blank == [v |-> <<>>, t |-> <<>>, adj_sym |-> NoAdj]

Init ==
    \E vin \in VertexInputs, tin \in TetraInputs :
        LET new == __init__(Blank, vin, tin)
        IN  /\ v = new.v
            /\ t = new.t
            /\ adj_sym = new.adj_sym
            /\ op = "__init__"
            /\ arg = NoValue
            /\ ret = NoValue
            /\ err = new.err
            /\ pre = [v |-> Blank.v, t |-> Blank.t, adj_sym |-> Blank.adj_sym,
                      op |-> NoValue]

\* A constructor that raised hands no object to the caller.
Live == ~(op = "__init__" /\ err # "none")

Self == [v |-> v, t |-> t, adj_sym |-> adj_sym]
Before == [v |-> v, t |-> t, adj_sym |-> adj_sym, op |-> op]

\* A method that reads the object and leaves it alone.
Query(name, a, r) ==
    /\ Live
    /\ op' = name
    /\ arg' = a
    /\ ret' = r
    /\ err' = "none"
    /\ pre' = Before
    /\ UNCHANGED <<v, t, adj_sym>>

(***************************************************************************)
(* has_free_vertices                                                       *)
(***************************************************************************)
HasFree(vv, tt) == VNum(vv) # Cardinality(Ids(tt))

has_free_vertices == Query("has_free_vertices", NoValue, HasFree(v, t))

(***************************************************************************)
(* Signed volumes: is_oriented and orient_                                 *)
(***************************************************************************)
Sub(a, b) == <<a[1] - b[1], a[2] - b[2], a[3] - b[3]>>

\* cupy.cross(a, b)
Cross(a, b) ==
    <<a[2] * b[3] - a[3] * b[2], a[3] * b[1] - a[1] * b[3], a[1] * b[2] - a[2] * b[1]>>

Dot(a, b) == a[1] * b[1] + a[2] * b[2] + a[3] * b[3]

\* vol of one tetra row: e3 . (e0 x e2), six times the signed volume.
SignedVol(vv, tet) ==
    LET v0 == Row(vv, tet[1])
        v1 == Row(vv, tet[2])
        v2 == Row(vv, tet[3])
        v3 == Row(vv, tet[4])
        e0 == Sub(v1, v0)
        e2 == Sub(v2, v0)
        e3 == Sub(v3, v0)
    IN  Dot(e3, Cross(e0, e2))

\* vol, one entry per tetra
Vol(vv, tt) == [k \in 1..Len(tt) |-> SignedVol(vv, tt[k])]

\* The branches of is_oriented, in the order the code tests them.
IsOriented(vv, tt) ==
    LET vol == Vol(vv, tt)
        vals == { vol[k] : k \in 1..Len(tt) }
    IN  IF MaxOf(vals) < 0
        THEN [result |-> FALSE, msg |-> "All tet orientations are flipped"]
        ELSE IF MinOf(vals) > 0
        THEN [result |-> TRUE, msg |-> "All tet orientations are correct"]
        ELSE IF Cardinality({ k \in 1..Len(tt) : vol[k] # 0 }) < Len(tt)
        THEN [result |-> FALSE, msg |-> "We have degenerated zero-volume tetrahedra"]
        ELSE [result |-> FALSE, msg |-> "Orientations are not uniform"]

is_oriented == Query("is_oriented", NoValue, IsOriented(v, t))

\* NegTet as it would be with vol <= 0.0: zero-volume rows count as flipped.
NegTetOrZero(vv, tt) == { k \in 1..Len(tt) : SignedVol(vv, tt[k]) <= 0 }

\* negtet: the rows with negative signed volume
NegTet(vv, tt) == { k \in 1..Len(tt) : SignedVol(vv, tt[k]) < 0 }

\* SwapWinding as it would be if temp were a view of column 1 and not a copy:
\* column 2 is written over column 1 and then read back.
SwapWindingAliased(tet) == <<tet[1], tet[3], tet[3], tet[4]>>

\* One row of tnew where negtet holds: columns 1 and 2 exchanged.
SwapWinding(tet) == <<tet[1], tet[3], tet[2], tet[4]>>

\* tnew after the two masked assignments
FlipNeg(vv, tt) ==
    [k \in 1..Len(tt) |-> IF k \in NegTet(vv, tt) THEN SwapWinding(tt[k]) ELSE tt[k]]

\* orient_ run on the object self: the object afterwards, what is returned
\* and what is raised.
Orient(self) ==
    LET negnum == Cardinality(NegTet(self.v, self.t))
        tnew == FlipNeg(self.v, self.t)
        new == __init__([self EXCEPT !.t = tnew], self.v, tnew)
    IN  IF negnum = 0
        THEN [v |-> self.v, t |-> self.t, adj_sym |-> self.adj_sym,
              ret |-> 0, err |-> "none"]
        ELSE [v |-> new.v, t |-> new.t, adj_sym |-> new.adj_sym,
              ret |-> IF new.err = "none" THEN negnum ELSE NoValue,
              err |-> new.err]

orient_ ==
    /\ Live
    /\ LET out == Orient(Self)
       IN  /\ v' = out.v
           /\ t' = out.t
           /\ adj_sym' = out.adj_sym
           /\ ret' = out.ret
           /\ err' = out.err
    /\ op' = "orient_"
    /\ arg' = NoValue
    /\ pre' = Before

(***************************************************************************)
(* rm_free_vertices_                                                       *)
(***************************************************************************)
\* vkeep as a mask over 0..vnum-1: vkeep[tflat] = True
KeepMask(vnum, tt) == [i \in 0..vnum - 1 |-> i \in Ids(tt)]

\* tlookup = cupy.cumsum(vkeep) - 1
TLookup(vnum, mask) ==
    [i \in 0..vnum - 1 |-> Cardinality({ j \in 0..i : mask[j] }) - 1]

\* What self.v[vkeep, :] does with a mask whose length is not the number of
\* rows depends on the cupy build: it raises IndexError where the mask shape
\* is checked, and takes the rows at the mask's True positions where it is
\* not.
MaskOutcomes == {"checked", "unchecked"}

\* rm_free_vertices_ run on the object self under one mask outcome.
RmFree(self, outcome) ==
    LET vnum == VNum(self.v)
        same == [v |-> self.v, t |-> self.t, adj_sym |-> self.adj_sym]
    IN  IF MaxIndex(self.t) >= vnum
        THEN same @@ [ret |-> NoValue, err |-> "ValueError"]
        ELSE
        LET mask == KeepMask(vnum, self.t)
            vdel == SortedSeq({ i \in 0..vnum - 1 : ~mask[i] })
            vkeep == SortedSeq({ i \in 0..vnum - 1 : mask[i] })
            vnew == [i \in 1..Len(vkeep) |-> Row(self.v, vkeep[i])]
            tlookup == TLookup(vnum, mask)
            tnew == [k \in 1..Len(self.t) |->
                        [j \in 1..4 |-> tlookup[self.t[k][j]]]]
        IN  IF Len(vdel) = 0
            THEN same @@ [ret |-> [vkeep |-> SortedSeq(0..vnum - 1), vdel |-> <<>>],
                          err |-> "none"]
            ELSE IF vnum # Len(self.v) /\ outcome = "checked"
            THEN same @@ [ret |-> NoValue, err |-> "IndexError"]
            ELSE [v |-> vnew, t |-> tnew, adj_sym |-> self.adj_sym,
                  ret |-> [vkeep |-> vkeep, vdel |-> vdel], err |-> "none"]

rm_free_vertices_ ==
    /\ Live
    /\ \E outcome \in MaskOutcomes :
        LET out == RmFree(Self, outcome)
        IN  /\ v' = out.v
            /\ t' = out.t
            /\ adj_sym' = out.adj_sym
            /\ ret' = out.ret
            /\ err' = out.err
    /\ op' = "rm_free_vertices_"
    /\ arg' = NoValue
    /\ pre' = Before

(***************************************************************************)
(* avg_edge_length                                                         *)
(***************************************************************************)
\* triadj = sparse.triu(self.adj_sym, 1): the stored (non-zero) entries
\* strictly above the diagonal.
Triu(adj) == { c \in DOMAIN adj.data : c[1] < c[2] /\ adj.data[c] # 0 }

\* ((self.v[row] - self.v[col]) ** 2).sum(1) for one entry
SqLen(vv, c) ==
    LET d == Sub(Row(vv, c[1]), Row(vv, c[2])) IN Dot(d, d)

\* edgelens.mean(): the mean of an empty array is NaN (no exception); the
\* mean of a non-empty one is kept as the terms it averages, the square
\* roots of sq over the entries of triadj.
AvgEdgeLength(vv, adj) ==
    LET triadj == Triu(adj)
    IN  IF triadj = {}
        THEN [kind |-> "nan", sq |-> <<>>]
        ELSE [kind |-> "mean", sq |-> [c \in triadj |-> SqLen(vv, c)]]

avg_edge_length == Query("avg_edge_length", NoValue, AvgEdgeLength(v, adj_sym))

(***************************************************************************)
(* boundary_tria                                                           *)
(***************************************************************************)
\* The column triples of the four vstack blocks, as 0-based columns.
FaceColumns == << <<3, 1, 2>>, <<2, 0, 3>>, <<1, 3, 0>>, <<0, 2, 1>> >>

\* allt: row p (0-based) is block p div m, tetra p mod m.
AllT(tt) ==
    LET m == Len(tt)
    IN  [p \in 0..4 * m - 1 |->
            LET cols == FaceColumns[(p \div m) + 1]
                tet == tt[(p % m) + 1]
            IN  <<tet[cols[1] + 1], tet[cols[2] + 1], tet[cols[3] + 1]>>]

\* cupy.sort of one row
SortRow(f) ==
    LET lo == MinOf({f[1], f[2], f[3]})
        hi == MaxOf({f[1], f[2], f[3]})
    IN  <<lo, f[1] + f[2] + f[3] - lo - hi, hi>>

LexLess(a, b) ==
    \/ a[1] < b[1]
    \/ a[1] = b[1] /\ a[2] < b[2]
    \/ a[1] = b[1] /\ a[2] = b[2] /\ a[3] < b[3]

RECURSIVE LexSorted(_)
\* The rows of a set in lexicographic order, as cupy.unique(axis=0) lists them.
LexSorted(S) ==
    IF S = {} THEN <<>>
    ELSE LET lo == CHOOSE a \in S : \A b \in S : a = b \/ LexLess(a, b)
         IN  <<lo>> \o LexSorted(S \ {lo})

\* cupy.unique(allts, axis=0, return_index=True, return_counts=True): the
\* distinct sorted rows, the position of the first occurrence of each and
\* the number of occurrences of each.
Unique(allts) ==
    LET rows == LexSorted({ allts[p] : p \in DOMAIN allts })
    IN  [ tria    |-> rows,
          indices |-> [u \in 1..Len(rows) |->
                          MinOf({ p \in DOMAIN allts : allts[p] = rows[u] })],
          count   |-> [u \in 1..Len(rows) |->
                          Cardinality({ p \in DOMAIN allts : allts[p] = rows[u] })] ]

\* IsBoundaryCount as it would be if every distinct face were kept.
IsBoundaryCountAny(c) == c >= 1

\* count == 1
IsBoundaryCount(c) == c = 1

\* indices[count == 1]
BoundaryPositions(tt) ==
    LET allt == AllT(tt)
        u == Unique([p \in DOMAIN allt |-> SortRow(allt[p])])
        sel == { k \in 1..Len(u.tria) : IsBoundaryCount(u.count[k]) }
        ks == SortedSeq(sel)
    IN  [i \in 1..Len(ks) |-> u.indices[ks[i]]]

\* AllTIdx as it would be with cupy.repeat in place of cupy.tile.
AllTIdxRepeat(m, p) == p \div 4

\* alltidx = cupy.tile(cupy.arange(m), 4), at position p
AllTIdx(m, p) == p % m

\* The triangle mesh type is not part of this file: it is taken to hold the
\* two arrays it is constructed from.
TriaMesh(vv, tria) == [v |-> vv, t |-> tria]

\* The tetfunc argument: None, or an array of one value per tetra.
None == [given |-> FALSE, values |-> <<>>]
Given(f) == [given |-> TRUE, values |-> f]

\* boundary_tria(tetfunc): the triangle mesh alone when tetfunc is None, the
\* mesh paired with triafunc otherwise (tetfunc is 0-based in the source,
\* element k+1 here).
BoundaryTria(vv, tt, tetfunc) ==
    LET allt == AllT(tt)
        pos == BoundaryPositions(tt)
        tria == [i \in 1..Len(pos) |-> allt[pos[i]]]
        tidx == [i \in 1..Len(pos) |-> AllTIdx(Len(tt), pos[i])]
    IN  IF tetfunc.given
        THEN [mesh |-> TriaMesh(vv, tria), paired |-> TRUE,
              triafunc |-> [i \in 1..Len(pos) |-> tetfunc.values[tidx[i] + 1]]]
        ELSE [mesh |-> TriaMesh(vv, tria), paired |-> FALSE, triafunc |-> <<>>]

boundary_tria ==
    \E tetfunc \in { Given(f) : f \in TetFuncs(Len(t)) } \cup {None} :
        Query("boundary_tria", tetfunc, BoundaryTria(v, t, tetfunc))

Next ==
    \/ has_free_vertices
    \/ is_oriented
    \/ orient_
    \/ rm_free_vertices_
    \/ avg_edge_length
    \/ boundary_tria

Spec == Init /\ [][Next]_vars

(***************************************************************************)
(* What the claims are stated with: counts taken directly over T.          *)
(***************************************************************************)
Slots == 1..4
RowsOf(tt) == 1..Len(tt)

\* The rows whose signed volume is negative, zero, positive.
NegativeRows(vv, tt) == { k \in RowsOf(tt) : SignedVol(vv, tt[k]) < 0 }
ZeroRows(vv, tt) == { k \in RowsOf(tt) : SignedVol(vv, tt[k]) = 0 }
PositiveRows(vv, tt) == { k \in RowsOf(tt) : SignedVol(vv, tt[k]) > 0 }

\* The tetras that have an edge (two different slots) with endpoints u and w.
TetsWithEdge(tt, u, w) ==
    { k \in RowsOf(tt) :
        \E a \in Slots, b \in Slots : a < b /\ {tt[k][a], tt[k][b]} = {u, w} }

\* The face of tetra k in block b, and its canonical key.
Face(tt, k, b) ==
    <<tt[k][FaceColumns[b][1] + 1], tt[k][FaceColumns[b][2] + 1],
      tt[k][FaceColumns[b][3] + 1]>>
Key(f) == SortRow(f)
Faces(tt) == RowsOf(tt) \X (1..4)
\* The faces whose key no other generated face has.
OnceFaces(tt) ==
    { f \in Faces(tt) :
        \A g \in Faces(tt) :
            Key(Face(tt, g[1], g[2])) = Key(Face(tt, f[1], f[2])) => g = f }

Distinct4(tet) == Cardinality({ tet[j] : j \in Slots }) = 4
Range(s) == { s[i] : i \in DOMAIN s }
Ascending(s) == \A i \in DOMAIN s, j \in DOMAIN s : i < j => s[i] < s[j]
OldIds(vv) == 0..Len(vv) - 1
FreeIds(vv, tt) == OldIds(vv) \ Ids(tt)

\* C1: in every state reached after a successful construction, adj_sym is
\* symmetric and is the adjacency construct_adj_sym derives from the
\* current T.
C1_AdjacencyCurrent ==
    Live =>
        /\ \A c \in DOMAIN adj_sym.data : adj_sym.data[c] = adj_sym.data[<<c[2], c[1]>>]
        /\ adj_sym = construct_adj_sym(t)

\* C2: construction with largest tetra index equal to the number of vertex
\* rows raises ValueError, and with largest index one less it succeeds, for
\* every number of rows from 1 on.
C2_IndexRange ==
    op = "__init__" =>
        /\ MaxIndex(t) = Len(v) => err = "ValueError"
        /\ MaxIndex(t) = Len(v) - 1 => err = "none"

\* C3: has_free_vertices() before rm_free_vertices_() is true iff the
\* deleted list returned is non-empty; after rm_free_vertices_() completes
\* has_free_vertices() is false and every index of T is below the new
\* number of vertex rows.
C3_FreeVertexConsistency ==
    op = "rm_free_vertices_" =>
        /\ HasFree(pre.v, pre.t) <=> (err = "none" /\ Len(ret.vdel) > 0)
        /\ err = "none" =>
            /\ ~HasFree(v, t)
            /\ \A i \in Ids(t) : 0 <= i /\ i < Len(v)

\* C4: on a mesh with a tetra of negative signed volume and none of zero
\* signed volume, orient_() returns the number of tetras that had negative
\* signed volume, and is_oriented() right afterwards is true: every tetra
\* then has positive signed volume.
C4_OrientRoundTrip ==
    (/\ op = "orient_"
     /\ NegativeRows(pre.v, pre.t) # {}
     /\ ZeroRows(pre.v, pre.t) = {}) =>
        /\ err = "none"
        /\ ret = Cardinality(NegativeRows(pre.v, pre.t))
        /\ IsOriented(v, t).result
        /\ PositiveRows(v, t) = RowsOf(t)

C4_Witness ==
    /\ op = "orient_"
    /\ Len(pre.t) = 2
    /\ Cardinality(NegativeRows(pre.v, pre.t)) = 1
    /\ ZeroRows(pre.v, pre.t) = {}
    /\ ret = 1
    /\ t # pre.t

\* C5: orient_() returns 0 and changes neither V, T nor the adjacency
\* whenever no tetra has negative signed volume, and in particular when it
\* is called right after another orient_(), zero-volume tetras included.
C5_OrientIdempotent ==
    (/\ op = "orient_"
     /\ \/ NegativeRows(pre.v, pre.t) = {}
        \/ pre.op = "orient_") =>
        /\ err = "none"
        /\ ret = 0
        /\ v = pre.v
        /\ t = pre.t
        /\ adj_sym = pre.adj_sym

C5_Witness ==
    /\ op = "orient_"
    /\ pre.op = "orient_"
    /\ ZeroRows(v, t) # {}
    /\ PositiveRows(v, t) # {}
    /\ ret = 0

\* C6: the adjacency construct_adj_sym builds is symmetric, and its (u, w)
\* entry is the number of tetras of T that have an edge with endpoints u
\* and w.
C6_AdjacencyCountsTetras ==
    (op = "__init__" /\ err = "none") =>
        \A c \in DOMAIN adj_sym.data :
            /\ adj_sym.data[c] = adj_sym.data[<<c[2], c[1]>>]
            /\ adj_sym.data[c] = Cardinality(TetsWithEdge(t, c[1], c[2]))

\* C7: boundary_tria() returns the faces whose canonical key occurs once
\* among the 4*|T| generated faces, each as its original oriented triple and
\* none for a key that occurs more often; one tetrahedron gives 4 triangles
\* and two tetrahedra glued on one face give 6.
C7_BoundaryFaces ==
    op = "boundary_tria" =>
        LET tria == ret.mesh.t
            once == OnceFaces(t)
        IN  /\ Len(tria) = Cardinality(once)
            /\ Range(tria) = { Face(t, f[1], f[2]) : f \in once }
            /\ ret.mesh.v = v
            /\ (Len(t) = 1 /\ Distinct4(t[1])) => Len(tria) = 4
            /\ (/\ Len(t) = 2
                /\ Distinct4(t[1])
                /\ Distinct4(t[2])
                /\ Cardinality(Range(t[1]) \cap Range(t[2])) = 3) => Len(tria) = 6

C7_Witness ==
    /\ op = "boundary_tria"
    /\ Len(t) = 2
    /\ Distinct4(t[1])
    /\ Distinct4(t[2])
    /\ Cardinality(Range(t[1]) \cap Range(t[2])) = 3
    /\ Len(ret.mesh.t) = 6

\* C8: with a per-tetra scalar array, boundary_tria returns one scalar per
\* returned triangle, and the scalar at a position is the value of the one
\* tetra the triangle at that position was generated from.
C8_ScalarTransfer ==
    (op = "boundary_tria" /\ arg.given) =>
        /\ ret.paired
        /\ Len(ret.triafunc) = Len(ret.mesh.t)
        /\ \A i \in 1..Len(ret.mesh.t) :
            /\ \E f \in Faces(t) : Face(t, f[1], f[2]) = ret.mesh.t[i]
            /\ \A f \in Faces(t) :
                Key(Face(t, f[1], f[2])) = Key(ret.mesh.t[i]) =>
                    ret.triafunc[i] = arg.values[f[1]]

C8_Witness ==
    /\ op = "boundary_tria"
    /\ arg.given
    /\ Len(t) = 2
    /\ arg.values[1] # arg.values[2]
    /\ Range(ret.triafunc) = {arg.values[1], arg.values[2]}

\* C9: avg_edge_length() on a mesh with no adjacency entry strictly above
\* the diagonal signals an error instead of returning NaN; on a mesh with
\* an edge it does not fail and averages over each undirected edge once.
C9_EmptyMeanSignalled ==
    op = "avg_edge_length" =>
        LET edges == { c \in DOMAIN adj_sym.data :
                         c[1] < c[2] /\ adj_sym.data[c] > 0 }
        IN  IF edges = {}
            THEN err # "none" /\ ret = NoValue
            ELSE err = "none" /\ ret.kind = "mean" /\ DOMAIN ret.sq = edges

\* C10: on a mesh with every tetra index in range, rm_free_vertices_()
\* returns (kept, deleted) that partition the old vertex ids with kept
\* ascending, new V[i] = old V[kept[i]], T keeps its rows and their order
\* with kept[new T[k][j]] = old T[k][j]; with no free vertex it returns
\* (all ids, empty) and changes nothing.
C10_Compaction ==
    (op = "rm_free_vertices_" /\ \A i \in Ids(pre.t) : i < Len(pre.v)) =>
        /\ err = "none"
        /\ IF FreeIds(pre.v, pre.t) # {}
           THEN /\ Range(ret.vkeep) \cup Range(ret.vdel) = OldIds(pre.v)
                /\ Range(ret.vkeep) \cap Range(ret.vdel) = {}
                /\ Range(ret.vdel) = FreeIds(pre.v, pre.t)
                /\ Ascending(ret.vkeep)
                /\ Len(v) = Len(ret.vkeep)
                /\ \A i \in 1..Len(v) : v[i] = pre.v[ret.vkeep[i] + 1]
                /\ Len(t) = Len(pre.t)
                /\ \A k \in RowsOf(t), j \in Slots :
                      ret.vkeep[t[k][j] + 1] = pre.t[k][j]
           ELSE /\ ret.vkeep = SortedSeq(OldIds(pre.v))
                /\ ret.vdel = <<>>
                /\ v = pre.v
                /\ t = pre.t
====
